---- MODULE Spec2Model ----
(***************************************************************************)
(* SIGNAL-V2.3: the position lifecycle store (position_store.py), one      *)
(* evaluation pass (run_once.py) and the scan triggers (main.py).          *)
(*                                                                         *)
(* Prices are integers (ticks).  Time is counted in daily bars: bar b      *)
(* closes at time b, so at time `now` the bar still forming has close      *)
(* time `now` and the latest closed bar has close time now - 1.            *)
(***************************************************************************)
EXTENDS Integers, Sequences, FiniteSets, TLC

\* ------------------------------------------------------------------ bounds
MaxNow == 3          \* the clock stops advancing here
MaxEntry == 12       \* the largest entry price the risk calculator is called with
MaxBars == 13        \* the longest close series the trend-flip detector is given
MaxCandles == 4      \* the longest candle list the pullback filter is given
NumHttp == 1         \* concurrent HTTP request handlers besides the scheduler

\* --------------------------------------------------------- program constants
MinCandles == 60     \* fewer candles than this give no decision
MinBars == 60        \* analyze_candles_for_signal: fewer candles than this give no signal
Limit == 200         \* the number of candles a scan asks the feed for
SlAtrMultNum == 3    \* sl_atr_mult = 1.5 = 3/2
SlAtrMultDen == 2
Tp1RR == 1
Tp2RR == 2
Tp3RR == 3
Never == 1000000000  \* _barssince: the condition has not been true yet (10**9)

\* ------------------------------------------------------------------ inputs
RawSymbols == {"BTCUSDT", "btcusdt", "ETHUSDT"}   \* symbols a caller may pass
StoreSymbols == {"BTCUSDT", "ETHUSDT"}            \* symbols of the payloads a caller may pass
ScanSymbols == {"BTCUSDT"}                        \* symbols the triggers scan
Directions == {"LONG", "SHORT"}
Atrs == {2}                                       \* latest ATR14 value of an accepted signal
Prices == {7, 10, 13, 16, 19}                     \* prices the feed may report
Timeframes == {"1d", "4h"}                        \* the timeframe request parameter

\* the close of the latest bar of a window that signals `direction`
EntryOf(direction) == IF direction = "LONG" THEN 10 ELSE 16

\* str.upper() on the symbols of the model
Upper(s) == IF s = "btcusdt" THEN "BTCUSDT" ELSE s

\* _key: f"{symbol.upper()}::{timeframe}"
Key(symbol, timeframe) == <<Upper(symbol), timeframe>>

\* _default_risk_levels with the default multipliers (atr > 0 checked by the caller)
DefaultRiskLevels(direction, entry, atr) ==
    IF direction = "LONG"
    THEN LET sl == entry - (atr * SlAtrMultNum) \div SlAtrMultDen
             risk == entry - sl
         IN  [sl |-> sl, tp1 |-> entry + risk * Tp1RR,
              tp2 |-> entry + risk * Tp2RR, tp3 |-> entry + risk * Tp3RR]
    ELSE LET sl == entry + (atr * SlAtrMultNum) \div SlAtrMultDen
             risk == sl - entry
         IN  [sl |-> sl, tp1 |-> entry - risk * Tp1RR,
              tp2 |-> entry - risk * Tp2RR, tp3 |-> entry - risk * Tp3RR]

\* SignalPayload as analyze_candles_for_signal assembles it (reason is text only)
SignalPayload(symbol, timeframe, direction, entry, atr) ==
    LET risk == DefaultRiskLevels(direction, entry, atr)
    IN  [symbol |-> symbol, timeframe |-> timeframe, direction |-> direction,
         entry_price |-> entry, stop_loss |-> risk.sl,
         tp1 |-> risk.tp1, tp2 |-> risk.tp2, tp3 |-> risk.tp3]

\* the payloads a caller of the store may pass: a signal of either direction for one
\* symbol, and a LONG one for the other
Payloads ==
    {SignalPayload("BTCUSDT", "1d", d, EntryOf(d), a) : d \in Directions, a \in Atrs}
    \cup {SignalPayload("ETHUSDT", "1d", "LONG", EntryOf("LONG"), a) : a \in Atrs}

VARIABLES
    now,            \* the clock (datetime.now / time.time), in bars
    market,         \* per symbol: what the analysis of the window ending at the latest closed bar gives
    positions,      \* state["positions"]: key -> position record (a dict)
    last_emitted,   \* state["meta"]["last_emitted"]: key -> close time (a dict)
    last_call,      \* the direct store call made last at the current time, and what it returned
    RUNNING,        \* main._RUNNING
    pc,             \* per trigger: where it is in run_daily / _run_daily_job / run_once
    loc,            \* per trigger: the local variables of its scan and of its current evaluation
    rejected,       \* how the latest trigger was turned away, "" if it was let in
    telegram,       \* the notifier: (symbol, closed-bar time) -> its signal was delivered "once" or "repeated"
    FILE_LOCK,      \* position_store._FILE_LOCK: the threads inside a with _FILE_LOCK block
    torn,           \* the store file: "whole" (a complete document), "empty" or "partial"
    call,           \* per thread: the store call it is in, at the grain of load / mutate / save
    candles,        \* the candles handed to the indicator engine, oldest first
    engine          \* the call of an indicator-engine function made last: arguments and result

storeVars == <<positions, last_emitted>>
pipeVars == <<RUNNING, pc, loc, rejected, telegram>>
lockVars == <<FILE_LOCK, torn, call>>
engineVars == <<candles, engine>>
vars == <<now, market, positions, last_emitted, last_call, RUNNING, pc, loc, rejected, telegram,
          FILE_LOCK, torn, call, candles, engine>>

\* trigger 0 is the scheduler thread (_run_daily_job); 1..NumHttp are request handlers (run_daily)
Scheduler == 0
Triggers == 0..NumHttp
HttpTriggers == 1..NumHttp

\* ------------------------------------------------------------- the store
\* dict.get(k) with a default
Get(d, k, default) == IF k \in DOMAIN d THEN d[k] ELSE default

\* d[k] = v on a dict
Put(d, k, v) == [x \in (DOMAIN d) \cup {k} |-> IF x = k THEN v ELSE d[x]]

EmptyDict == [x \in {} |-> 0]

\* the record create_position stores for a payload; last_price = 0, last_update = 0
\* and empty events stand for the keys the new dict does not have yet
NewPosition(payload) ==
    [symbol |-> payload.symbol, timeframe |-> payload.timeframe,
     direction |-> payload.direction, entry_price |-> payload.entry_price,
     stop_loss |-> payload.stop_loss,
     tp1 |-> payload.tp1, tp2 |-> payload.tp2, tp3 |-> payload.tp3,
     status |-> "ACTIVE",
     tp1_hit |-> FALSE, tp2_hit |-> FALSE, tp3_hit |-> FALSE, sl_hit |-> FALSE,
     last_price |-> 0, last_update |-> 0, events |-> EmptyDict]

\* mutation of CreateStore: a record that is there is reopened as it is
CreateStore_Reopen(ps, payload) ==
    LET k == Key(payload.symbol, payload.timeframe) IN
    IF k \in DOMAIN ps
    THEN Put(ps, k, [ps[k] EXCEPT !.status = "ACTIVE"])
    ELSE Put(ps, k, NewPosition(payload))

\* create_position: the positions it leaves in the store
CreateStore(ps, payload) ==
    Put(ps, Key(payload.symbol, payload.timeframe), NewPosition(payload))

\* mark(name) for every name of a set: pos["events"][name] = now
Mark(events, names, t) ==
    [x \in (DOMAIN events) \cup names |-> IF x \in names THEN t ELSE events[x]]

\* update_on_price: the stop-loss test of either direction (any direction but LONG is
\* handled as SHORT)
CrossedStop(pos, last_price) ==
    IF pos.direction = "LONG" THEN last_price <= pos.stop_loss
    ELSE last_price >= pos.stop_loss

\* update_on_price: the target test of either direction
Reached(pos, level, last_price) ==
    IF pos.direction = "LONG" THEN last_price >= level ELSE last_price <= level

\* mutation of SlHitAfter: the stop-loss branch closes without setting the flag
SlHitAfter_Forgotten(pos, last_price) == pos.sl_hit

\* update_on_price: pos["sl_hit"] after the call
SlHitAfter(pos, last_price) ==
    IF CrossedStop(pos, last_price) THEN TRUE ELSE pos.sl_hit

\* mutation of Tp1HitAfter: the flag is assigned from the test instead of latched
Tp1HitAfter_Assigned(pos, last_price) ==
    ~CrossedStop(pos, last_price) /\ Reached(pos, pos.tp1, last_price)

\* mutation of Tp1HitAfter: the stop-loss branch resets the flag
Tp1HitAfter_ClearedOnStop(pos, last_price) ==
    IF CrossedStop(pos, last_price) THEN FALSE
    ELSE IF Reached(pos, pos.tp1, last_price) THEN TRUE ELSE pos.tp1_hit

\* update_on_price: pos["tp1_hit"] after the call
Tp1HitAfter(pos, last_price) ==
    IF ~CrossedStop(pos, last_price) /\ Reached(pos, pos.tp1, last_price)
    THEN TRUE ELSE pos.tp1_hit

\* mutation of Tp2HitAfter: the second target is not tested
Tp2HitAfter_NotTested(pos, last_price) == pos.tp2_hit

\* update_on_price: pos["tp2_hit"] after the call
Tp2HitAfter(pos, last_price) ==
    IF ~CrossedStop(pos, last_price) /\ Reached(pos, pos.tp2, last_price)
    THEN TRUE ELSE pos.tp2_hit

\* update_on_price: pos["tp3_hit"] after the call
Tp3HitAfter(pos, last_price) ==
    IF ~CrossedStop(pos, last_price) /\ Reached(pos, pos.tp3, last_price)
    THEN TRUE ELSE pos.tp3_hit

\* mutation of StatusAfter: only the stop-loss closes the position
StatusAfter_StopOnly(pos, last_price) ==
    IF CrossedStop(pos, last_price) THEN "CLOSED" ELSE pos.status

\* mutation of StatusAfter: the second target closes the position too
StatusAfter_ClosesOnTp2(pos, last_price) ==
    IF CrossedStop(pos, last_price) \/ Reached(pos, pos.tp2, last_price)
    THEN "CLOSED" ELSE pos.status

\* update_on_price: pos["status"] after the call
StatusAfter(pos, last_price) ==
    IF CrossedStop(pos, last_price) \/ Reached(pos, pos.tp3, last_price)
    THEN "CLOSED" ELSE pos.status

\* update_on_price: the names it marks in pos["events"]
Marked(pos, last_price) ==
    IF CrossedStop(pos, last_price) THEN {"SL"}
    ELSE (IF Reached(pos, pos.tp1, last_price) THEN {"TP1"} ELSE {})
         \cup (IF Reached(pos, pos.tp2, last_price) THEN {"TP2"} ELSE {})
         \cup (IF Reached(pos, pos.tp3, last_price) THEN {"TP3"} ELSE {})

\* update_on_price, the branch on an ACTIVE record: the record it saves
UpdatedPosition(pos, last_price, t) ==
    [pos EXCEPT
        !.sl_hit = SlHitAfter(pos, last_price),
        !.tp1_hit = Tp1HitAfter(pos, last_price),
        !.tp2_hit = Tp2HitAfter(pos, last_price),
        !.tp3_hit = Tp3HitAfter(pos, last_price),
        !.status = StatusAfter(pos, last_price),
        !.events = Mark(@, Marked(pos, last_price), t),
        !.last_price = last_price,
        !.last_update = t]

\* mutation of UpdateResult: a key without a record is not told apart
UpdateResult_NoNotFound(ps, k, last_price, t) ==
    IF k \notin DOMAIN ps THEN "ACTIVE"
    ELSE IF ps[k].status # "ACTIVE" THEN "CLOSED"
    ELSE IF StatusAfter(ps[k], last_price) = "CLOSED" THEN "CLOSED"
    ELSE "ACTIVE"

\* update_on_price: what it returns for the store it loaded
UpdateResult(ps, k, last_price, t) ==
    IF k \notin DOMAIN ps THEN "NOT_FOUND"
    ELSE IF ps[k].status # "ACTIVE" THEN "CLOSED"
    ELSE IF StatusAfter(ps[k], last_price) = "CLOSED" THEN "CLOSED"
    ELSE "ACTIVE"

\* mutation of UpdateStore: the test for a record that is no longer ACTIVE is missing
UpdateStore_NoClosedTest(ps, k, last_price, t) ==
    IF k \notin DOMAIN ps THEN ps
    ELSE Put(ps, k, UpdatedPosition(ps[k], last_price, t))

\* update_on_price: the positions it leaves in the store
UpdateStore(ps, k, last_price, t) ==
    IF k \notin DOMAIN ps THEN ps
    ELSE IF ps[k].status # "ACTIVE" THEN ps
    ELSE Put(ps, k, UpdatedPosition(ps[k], last_price, t))

\* mutation of IsLocked: no record is reported ACTIVE
IsLocked_Never(ps, k) == FALSE

\* is_locked
IsLocked(ps, k) == k \in DOMAIN ps /\ ps[k].status = "ACTIVE"

\* get_last_emitted_close_time_ms
GetLastEmitted(le, k) == Get(le, k, 0)

\* mutation of SetLastEmitted: the marker dict is written anew with the one key
SetLastEmitted_OnlyKey(le, k, close_time_ms) == Put(EmptyDict, k, close_time_ms)

\* set_last_emitted_close_time_ms: the markers it leaves in the store
SetLastEmitted(le, k, close_time_ms) == Put(le, k, close_time_ms)

\* ------------------------------------------------------------ run_once
\* the local variables of a trigger that is not scanning
IdleLoc ==
    [syms |-> <<>>, tf |-> "", sym |-> "", T |-> 0, win |-> "NONE",
     locked |-> FALSE, st |-> "", sig |-> "NONE", ledger |-> "", out |-> ""]

\* the windows fetch_ohlcv may return at time t, as (number of candles, close time of
\* the last one): the usual one ends with the forming bar; a young market has few
\* candles; a lagging feed has not opened the new bar yet
FeedWindows(t) ==
    {[n |-> Limit, last |-> t], [n |-> MinCandles, last |-> t], [n |-> Limit, last |-> t - 1]}

\* mutation of ClosedCandles: the forming candle is kept
ClosedCandles_KeepsForming(c, t) == c

\* run_once: the forming candle is dropped
ClosedCandles(c, t) ==
    IF t <= c.last THEN [n |-> c.n - 1, last |-> c.last - 1] ELSE c

\* run_once: NOT_ENOUGH_CLOSED_CANDLES, checked only when a candle was dropped
NotEnoughClosed(c, t) == t <= c.last /\ c.n - 1 < MinCandles

\* mutation of AlreadyEmitted: the once-per-candle check never matches
AlreadyEmitted_Never(le, k, T) == FALSE

\* run_once: ALREADY_EMITTED_THIS_CANDLE
AlreadyEmitted(le, k, T) == GetLastEmitted(le, k) = T

\* mutation of StillLocked: the evaluation goes on whatever update_on_price returned
StillLocked_Never(st) == FALSE

\* run_once: LOCKED_SKIP after the position update
StillLocked(st) == st # "CLOSED"

\* analyze_candles_for_signal on a window of n candles whose detector, pullback filter
\* and ATR give `outcome` ("NONE", or the direction of an accepted signal)
Analyze(n, outcome) == IF n < MinCandles THEN "NONE" ELSE outcome

\* the payload of the signal of direction d for a symbol
PayloadOf(sym, d) == SignalPayload(sym, "1d", d, EntryOf(d), CHOOSE a \in Atrs : TRUE)

\* no call of the indicator engine has been made
NoEngineCall == [fn |-> "none"]

\* mutation of GuardBusy: the run-in-progress flag is not looked at
GuardBusy_Never(running) == FALSE

\* main: the run-in-progress check under _RUNNING_LOCK
GuardBusy(running) == running

\* _load_symbols(): symbols.txt, or its default
LoadSymbols == <<"BTCUSDT">>

\* the symbol lists a request may name (symbol=, symbols=), as run_daily upper-cases them
RequestSymbols ==
    {[i \in DOMAIN raw |-> Upper(raw[i])] : raw \in {<<"btcusdt">>, <<"BTCUSDT">>}}

\* the store file as load_positions returns it
Doc(ps, le) == [positions |-> ps, last_emitted |-> le]

\* a thread that is in no store call
IdleCall == [pc |-> "idle", op |-> "", sym |-> "", price |-> 0, base |-> Doc(EmptyDict, EmptyDict)]

\* no direct store call yet
NoCall == [op |-> "none", key |-> <<>>, ret |-> "None"]

\* the process after start-up, before any trigger: an empty store and a free guard
ProgramInit ==
    /\ now = 2
    /\ positions = EmptyDict
    /\ last_emitted = EmptyDict
    /\ last_call = NoCall
    /\ RUNNING = FALSE
    /\ pc = [t \in Triggers |-> "idle"]
    /\ loc = [t \in Triggers |-> IdleLoc]
    /\ rejected = ""
    /\ telegram = EmptyDict
    /\ FILE_LOCK = {}
    /\ torn = "whole"
    /\ call = [c \in Triggers |-> IdleCall]

Init ==
    /\ ProgramInit
    /\ market \in [ScanSymbols -> {"NONE"} \cup Directions]
    /\ candles = <<>>
    /\ engine = NoEngineCall

\* time passes: the forming bar closes and a new window is there to analyse
Tick ==
    /\ now < MaxNow
    /\ now' = now + 1
    /\ market' \in [ScanSymbols -> {"NONE"} \cup Directions]
    /\ UNCHANGED <<positions, last_emitted, last_call, pipeVars, lockVars, engineVars>>

\* ---------------------------------------------- direct calls of the store
create_position(payload) ==
    /\ positions' = CreateStore(positions, payload)
    /\ last_call' = [op |-> "create_position", key |-> <<>>, ret |-> "None"]
    /\ UNCHANGED <<engineVars, lockVars, now, market, last_emitted, pipeVars>>

\* the sheet update after the lock is released changes nothing of the store and its
\* failure is caught
update_on_price(symbol, timeframe, last_price) ==
    /\ positions' = UpdateStore(positions, Key(symbol, timeframe), last_price, now)
    /\ last_call' = [op |-> "update_on_price", key |-> Key(symbol, timeframe),
                     ret |-> UpdateResult(positions, Key(symbol, timeframe), last_price, now)]
    /\ UNCHANGED <<engineVars, lockVars, now, market, last_emitted, pipeVars>>

set_last_emitted_close_time_ms(symbol, timeframe, close_time_ms) ==
    /\ last_emitted' = SetLastEmitted(last_emitted, Key(symbol, timeframe), close_time_ms)
    /\ last_call' = [op |-> "set_last_emitted_close_time_ms", key |-> <<>>,
                     ret |-> "None"]
    /\ UNCHANGED <<engineVars, lockVars, now, market, positions, pipeVars>>

StoreTick ==
    /\ now < MaxNow
    /\ now' = now + 1
    /\ last_call' = NoCall
    /\ UNCHANGED <<market, positions, last_emitted, pipeVars, lockVars, engineVars>>

\* the store on its own: no trigger runs, the callers are arbitrary
StoreInit ==
    /\ Init
    /\ market = [s \in ScanSymbols |-> "NONE"]

StoreNext ==
    \/ StoreTick
    \/ \E p \in Payloads : create_position(p)
    \/ \E s \in StoreSymbols, price \in Prices : update_on_price(s, "1d", price)
    \/ \E s \in RawSymbols : set_last_emitted_close_time_ms(s, "1d", now - 1)

StoreSpec == StoreInit /\ [][StoreNext]_vars

\* ------------------------------------------------------------ the triggers
\* the notifier delivers one more message about entry e
Deliver(d, e) == Put(d, e, IF e \in DOMAIN d THEN "repeated" ELSE "once")

\* the locals of a scan between two evaluations: the symbols left and the timeframe
ScanLoc(syms, tf) == [IdleLoc EXCEPT !.syms = syms, !.tf = tf]

\* run_once returns 0 after printing `out`: the loop goes on with the next symbol; the
\* symbol and closed bar that `out` is about stay visible until the next evaluation
Return(t, out) ==
    /\ pc' = [pc EXCEPT ![t] = "loop"]
    /\ loc' = [loc EXCEPT ![t] =
                [ScanLoc(Tail(loc[t].syms), loc[t].tf) EXCEPT
                    !.out = out, !.sym = loc[t].sym, !.T = loc[t].T]]

\* mutation of Raise: the exception is caught inside the loop, which goes on
Raise_Swallowed(t) ==
    /\ pc' = [pc EXCEPT ![t] = "loop"]
    /\ loc' = [loc EXCEPT ![t] = [ScanLoc(<<>>, loc[t].tf) EXCEPT !.out = "EXCEPTION"]]

\* an exception leaves run_once and the scan loop for the trigger's finally block
Raise(t) ==
    /\ pc' = [pc EXCEPT ![t] = "finally"]
    /\ loc' = [loc EXCEPT ![t] = [IdleLoc EXCEPT !.out = "EXCEPTION"]]

\* mutation of HttpRequest: the rejection leaves through the finally block
HttpRequest_RejectReleases(t) ==
    /\ t \in HttpTriggers
    /\ pc[t] = "idle"
    /\ \/ /\ rejected' = "INVALID_KEY"
          /\ UNCHANGED <<RUNNING, pc>>
       \/ /\ GuardBusy(RUNNING)
          /\ rejected' = "ALREADY_RUNNING"
          /\ RUNNING' = FALSE
          /\ UNCHANGED pc
       \/ /\ ~GuardBusy(RUNNING)
          /\ RUNNING' = TRUE
          /\ pc' = [pc EXCEPT ![t] = "params"]
          /\ rejected' = ""
    /\ UNCHANGED <<engineVars, lockVars, now, market, positions, last_emitted, last_call, loc, telegram>>

\* run_daily: the key check, then the check-and-set of _RUNNING under _RUNNING_LOCK
HttpRequest(t) ==
    /\ t \in HttpTriggers
    /\ pc[t] = "idle"
    /\ \/ /\ rejected' = "INVALID_KEY"
          /\ UNCHANGED <<RUNNING, pc>>
       \/ /\ GuardBusy(RUNNING)
          /\ rejected' = "ALREADY_RUNNING"
          /\ UNCHANGED <<RUNNING, pc>>
       \/ /\ ~GuardBusy(RUNNING)
          /\ RUNNING' = TRUE
          /\ pc' = [pc EXCEPT ![t] = "params"]
          /\ rejected' = ""
    /\ UNCHANGED <<engineVars, lockVars, now, market, positions, last_emitted, last_call, loc, telegram>>

\* run_daily: the request parameters; int(limit) raises on a malformed limit
HttpParams(t) ==
    /\ t \in HttpTriggers
    /\ pc[t] = "params"
    /\ \/ Raise(t)
       \/ /\ \E tf \in Timeframes, syms \in RequestSymbols :
                loc' = [loc EXCEPT ![t] = ScanLoc(syms, tf)]
          /\ pc' = [pc EXCEPT ![t] = "loop"]
    /\ UNCHANGED <<engineVars, lockVars, now, market, positions, last_emitted, last_call, RUNNING, rejected, telegram>>

\* _run_daily_job: the check-and-set of _RUNNING, then timeframe and symbols
SchedulerFire(t) ==
    /\ t = Scheduler
    /\ pc[t] = "idle"
    /\ \/ /\ GuardBusy(RUNNING)
          /\ rejected' = "SKIPPED"
          /\ UNCHANGED <<RUNNING, pc, loc>>
       \/ /\ ~GuardBusy(RUNNING)
          /\ RUNNING' = TRUE
          /\ pc' = [pc EXCEPT ![t] = "loop"]
          /\ loc' = [loc EXCEPT ![t] = ScanLoc(LoadSymbols, "1d")]
          /\ rejected' = ""
    /\ UNCHANGED <<engineVars, lockVars, now, market, positions, last_emitted, last_call, telegram>>

\* for sym in symbols: run_once(sym, timeframe) up to its timeframe check; after the
\* loop record_scan, and for the scheduler the summary message, which may raise
Loop(t) ==
    /\ pc[t] = "loop"
    /\ IF loc[t].syms = <<>>
       THEN /\ pc' = [pc EXCEPT ![t] = "finally"]
            /\ \/ loc' = [loc EXCEPT ![t] = [IdleLoc EXCEPT !.out = "SCANNED"]]
               \/ t = Scheduler /\ loc' = [loc EXCEPT ![t] = [IdleLoc EXCEPT !.out = "EXCEPTION"]]
       ELSE IF loc[t].tf # "1d"
       THEN Return(t, "ONLY_1D_ALLOWED")
       ELSE /\ pc' = [pc EXCEPT ![t] = "fetch"]
            /\ loc' = [loc EXCEPT ![t] =
                        [ScanLoc(loc[t].syms, loc[t].tf) EXCEPT !.sym = Head(loc[t].syms)]]
    /\ UNCHANGED <<engineVars, lockVars, now, market, positions, last_emitted, last_call, RUNNING, rejected, telegram>>

\* fetch_ohlcv, then the forming candle is dropped.  The analysis is a pure function of
\* the candles, so what it will give is fixed once they are fetched: win holds it
Fetch(t) ==
    /\ pc[t] = "fetch"
    /\ \/ Raise(t)
       \/ \E c \in FeedWindows(now) :
            IF NotEnoughClosed(c, now)
            THEN Return(t, "NOT_ENOUGH_CLOSED_CANDLES")
            ELSE /\ pc' = [pc EXCEPT ![t] = "dedup"]
                 /\ loc' = [loc EXCEPT ![t].T = ClosedCandles(c, now).last,
                                       ![t].win = Analyze(ClosedCandles(c, now).n,
                                                          market[loc[t].sym])]
    /\ UNCHANGED <<engineVars, lockVars, now, market, positions, last_emitted, last_call, RUNNING, rejected, telegram>>

\* get_last_emitted_close_time_ms and the once-per-candle check
Dedup(t) ==
    /\ pc[t] = "dedup"
    /\ IF AlreadyEmitted(last_emitted, Key(loc[t].sym, loc[t].tf), loc[t].T)
       THEN Return(t, "ALREADY_EMITTED_THIS_CANDLE")
       ELSE /\ pc' = [pc EXCEPT ![t] = "locked"]
            /\ UNCHANGED loc
    /\ UNCHANGED <<engineVars, lockVars, now, market, positions, last_emitted, last_call, RUNNING, rejected, telegram>>

\* is_locked
Locked(t) ==
    /\ pc[t] = "locked"
    /\ loc' = [loc EXCEPT ![t].locked = IsLocked(positions, Key(loc[t].sym, loc[t].tf))]
    /\ pc' = [pc EXCEPT ![t] =
                IF IsLocked(positions, Key(loc[t].sym, loc[t].tf)) THEN "update" ELSE "analyze"]
    /\ UNCHANGED <<engineVars, lockVars, now, market, positions, last_emitted, last_call, RUNNING, rejected, telegram>>

\* fetch_last_price, which may raise, then update_on_price up to the release of
\* _FILE_LOCK; writing the store file may fail
Update(t) ==
    /\ pc[t] = "update"
    /\ LET k == Key(loc[t].sym, loc[t].tf) IN
       \/ Raise(t) /\ UNCHANGED positions
       \/ /\ IsLocked(positions, k)
          /\ Raise(t)
          /\ UNCHANGED positions
       \/ \E last \in Prices :
          /\ positions' = UpdateStore(positions, k, last, now)
          /\ loc' = [loc EXCEPT ![t].st = UpdateResult(positions, k, last, now)]
          /\ pc' = [pc EXCEPT ![t] = IF IsLocked(positions, k) THEN "sheet" ELSE "unlock"]
    /\ UNCHANGED <<engineVars, lockVars, now, market, last_emitted, last_call, RUNNING, rejected, telegram>>

\* update_on_price, after the lock: update_hit_status, whose failure is caught
Sheet(t) ==
    /\ pc[t] = "sheet"
    /\ pc' = [pc EXCEPT ![t] = "unlock"]
    /\ \/ loc' = [loc EXCEPT ![t].ledger = "ok"]
       \/ loc' = [loc EXCEPT ![t].ledger = "SHEET_UPDATE_SKIPPED"]
    /\ UNCHANGED <<engineVars, lockVars, now, market, positions, last_emitted, last_call, RUNNING, rejected, telegram>>

\* run_once: POSITION_UPDATE, then LOCKED_SKIP unless the update closed the position
Unlock(t) ==
    /\ pc[t] = "unlock"
    /\ IF StillLocked(loc[t].st)
       THEN Return(t, "LOCKED_SKIP")
       ELSE /\ pc' = [pc EXCEPT ![t] = "analyze"]
            /\ loc' = [loc EXCEPT ![t].ledger = ""]
    /\ UNCHANGED <<engineVars, lockVars, now, market, positions, last_emitted, last_call, RUNNING, rejected, telegram>>

\* analyze_candles_for_signal
AnalyzeStep(t) ==
    /\ pc[t] = "analyze"
    /\ LET sig == loc[t].win IN
       IF sig = "NONE"
       THEN Return(t, "NO_SIGNAL")
       ELSE /\ pc' = [pc EXCEPT ![t] = "telegram"]
            /\ loc' = [loc EXCEPT ![t] =
                        [ScanLoc(loc[t].syms, loc[t].tf) EXCEPT
                            !.sym = loc[t].sym, !.T = loc[t].T, !.sig = sig,
                            !.locked = loc[t].locked, !.st = loc[t].st]]
    /\ UNCHANGED <<engineVars, lockVars, now, market, positions, last_emitted, last_call, RUNNING, rejected, telegram>>

\* dispatch: send_telegram raises when the notifier call fails
Telegram(t) ==
    /\ pc[t] = "telegram"
    /\ \/ Raise(t) /\ UNCHANGED telegram
       \/ /\ telegram' = Deliver(telegram, <<loc[t].sym, loc[t].T>>)
          /\ pc' = [pc EXCEPT ![t] = "stats"]
          /\ UNCHANGED loc
    /\ UNCHANGED <<engineVars, lockVars, now, market, positions, last_emitted, last_call, RUNNING, rejected>>

\* dispatch: record_signal writes the daily statistics file, which may fail
Stats(t) ==
    /\ pc[t] = "stats"
    /\ \/ Raise(t)
       \/ pc' = [pc EXCEPT ![t] = "ledger"] /\ UNCHANGED loc
    /\ UNCHANGED <<engineVars, lockVars, now, market, positions, last_emitted, last_call, RUNNING, rejected, telegram>>

\* mutation of Ledger: a failure of append_signal_row is not caught
Ledger_Propagates(t) ==
    /\ pc[t] = "ledger"
    /\ \/ /\ pc' = [pc EXCEPT ![t] = "create"]
          /\ loc' = [loc EXCEPT ![t].ledger = "SHEET_LOGGED"]
       \/ Raise(t)
    /\ UNCHANGED <<engineVars, lockVars, now, market, positions, last_emitted, last_call, RUNNING, rejected, telegram>>

\* dispatch: append_signal_row, whose failure is caught
Ledger(t) ==
    /\ pc[t] = "ledger"
    /\ pc' = [pc EXCEPT ![t] = "create"]
    /\ \/ loc' = [loc EXCEPT ![t].ledger = "SHEET_LOGGED"]
       \/ loc' = [loc EXCEPT ![t].ledger = "SHEET_SKIPPED"]
    /\ UNCHANGED <<engineVars, lockVars, now, market, positions, last_emitted, last_call, RUNNING, rejected, telegram>>

\* mutation of Create: a failed write of the store is swallowed and the evaluation goes on
Create_FailureSwallowed(t) ==
    /\ pc[t] = "create"
    /\ \/ /\ UNCHANGED positions
          /\ pc' = [pc EXCEPT ![t] = "mark"]
          /\ loc' = [loc EXCEPT ![t].ledger = ""]
       \/ /\ positions' = CreateStore(positions, PayloadOf(loc[t].sym, loc[t].sig))
          /\ pc' = [pc EXCEPT ![t] = "mark"]
          /\ loc' = [loc EXCEPT ![t].ledger = ""]
    /\ UNCHANGED <<engineVars, lockVars, now, market, last_emitted, last_call, RUNNING, rejected, telegram>>

\* create_position(sig); writing the store file may fail
Create(t) ==
    /\ pc[t] = "create"
    /\ \/ Raise(t) /\ UNCHANGED positions
       \/ /\ positions' = CreateStore(positions, PayloadOf(loc[t].sym, loc[t].sig))
          /\ pc' = [pc EXCEPT ![t] = "mark"]
          /\ loc' = [loc EXCEPT ![t].ledger = ""]
    /\ UNCHANGED <<engineVars, lockVars, now, market, last_emitted, last_call, RUNNING, rejected, telegram>>

\* set_last_emitted_close_time_ms, then DISPATCHED; writing the store file may fail
MarkEmitted(t) ==
    /\ pc[t] = "mark"
    /\ \/ Raise(t) /\ UNCHANGED last_emitted
       \/ /\ last_emitted' =
                SetLastEmitted(last_emitted, Key(loc[t].sym, loc[t].tf), loc[t].T)
          /\ Return(t, "DISPATCHED")
    /\ UNCHANGED <<engineVars, lockVars, now, market, positions, last_call, RUNNING, rejected, telegram>>

\* mutation of Finally: the invocation ends and the flag is left as it is
Finally_KeepsRunning(t) ==
    /\ pc[t] = "finally"
    /\ pc' = [pc EXCEPT ![t] = "idle"]
    /\ loc' = [loc EXCEPT ![t] = IdleLoc]
    /\ UNCHANGED <<engineVars, lockVars, now, market, positions, last_emitted, last_call, RUNNING, rejected, telegram>>

\* finally: _RUNNING = False under _RUNNING_LOCK, and the invocation ends
Finally(t) ==
    /\ pc[t] = "finally"
    /\ RUNNING' = FALSE
    /\ pc' = [pc EXCEPT ![t] = "idle"]
    /\ UNCHANGED rejected
    /\ loc' = [loc EXCEPT ![t] = IdleLoc]
    /\ UNCHANGED <<engineVars, lockVars, now, market, positions, last_emitted, last_call, telegram>>

Next ==
    \/ Tick
    \/ \E t \in Triggers :
        \/ HttpRequest(t)
        \/ HttpParams(t)
        \/ SchedulerFire(t)
        \/ Loop(t)
        \/ Fetch(t)
        \/ Dedup(t)
        \/ Locked(t)
        \/ Update(t)
        \/ Sheet(t)
        \/ Unlock(t)
        \/ AnalyzeStep(t)
        \/ Telegram(t)
        \/ Stats(t)
        \/ Ledger(t)
        \/ Create(t)
        \/ MarkEmitted(t)
        \/ Finally(t)

Spec == Init /\ [][Next]_vars

\* ------------------------------------- the store at the grain of _FILE_LOCK
\* Threads of the process call the store concurrently.  A mutating call is
\* with _FILE_LOCK: load_positions, the mutation, save_positions; save_positions is
\* write_text, which truncates the file and then writes the document.
LockPrices == {7, 13, 19}
StoreOps ==
    [op : {"create_position", "set_last_emitted_close_time_ms", "is_locked"},
     sym : StoreSymbols, price : {0}]
    \cup [op : {"update_on_price"}, sym : StoreSymbols, price : LockPrices]

\* the document on disk as load_positions reads it: an empty file reads as an empty store
ReadFile == IF torn = "whole" THEN Doc(positions, last_emitted) ELSE Doc(EmptyDict, EmptyDict)

\* the document a call writes when it loaded doc
Effect(c, doc) ==
    LET k == Key(c.sym, "1d") IN
    IF c.op = "create_position"
    THEN [doc EXCEPT !.positions = CreateStore(@, PayloadOf(c.sym, "LONG"))]
    ELSE IF c.op = "update_on_price"
    THEN [doc EXCEPT !.positions = UpdateStore(@, k, c.price, now)]
    ELSE [doc EXCEPT !.last_emitted = SetLastEmitted(@, k, now - 1)]

\* is_locked only loads; update_on_price returns NOT_FOUND or CLOSED before it saves anything
Saves(c, doc) ==
    /\ c.op # "is_locked"
    /\ c.op = "update_on_price" => IsLocked(doc.positions, Key(c.sym, "1d"))

\* mutation of CanAcquire: the lock is not waited for
CanAcquire_Always(lock) == TRUE

\* threading.Lock: acquire goes through when nobody holds the lock
CanAcquire(lock) == lock = {}

\* mutation of LockAfterSave: the lock is still held after the with block
LockAfterSave_Kept(lock, c) == lock

\* the end of the with _FILE_LOCK block releases the lock
LockAfterSave(lock, c) == lock \ {c}

\* with _FILE_LOCK: a thread enters a mutating store call
Enter(c) ==
    /\ call[c].pc = "idle"
    /\ CanAcquire(FILE_LOCK)
    /\ FILE_LOCK' = FILE_LOCK \cup {c}
    /\ \E o \in StoreOps :
        call' = [call EXCEPT ![c] =
                    [IdleCall EXCEPT !.pc = "load", !.op = o.op, !.sym = o.sym, !.price = o.price]]
    /\ UNCHANGED <<engineVars, now, market, positions, last_emitted, last_call, pipeVars, torn>>

\* load_positions; json.loads raises on a partial document, which ends the call
Load(c) ==
    /\ call[c].pc = "load"
    /\ IF torn = "partial"
       THEN /\ call' = [call EXCEPT ![c] = IdleCall]
            /\ FILE_LOCK' = FILE_LOCK \ {c}
       ELSE /\ call' = [call EXCEPT ![c].pc = "mutate", ![c].base = ReadFile]
            /\ UNCHANGED FILE_LOCK
    /\ UNCHANGED <<engineVars, now, market, positions, last_emitted, last_call, pipeVars, torn>>

\* the mutation of the loaded document; is_locked ends here, and so does
\* update_on_price when it returns before the save
Mutate(c) ==
    /\ call[c].pc = "mutate"
    /\ IF Saves(call[c], call[c].base)
       THEN /\ call' = [call EXCEPT ![c].pc = "open"]
            /\ UNCHANGED FILE_LOCK
       ELSE /\ call' = [call EXCEPT ![c] = IdleCall]
            /\ FILE_LOCK' = FILE_LOCK \ {c}
    /\ UNCHANGED <<engineVars, now, market, positions, last_emitted, last_call, pipeVars, torn>>

\* save_positions: write_text opens the file for writing, which truncates it
SaveOpen(c) ==
    /\ call[c].pc = "open"
    /\ call' = [call EXCEPT ![c].pc = "write"]
    /\ torn' = "empty"
    /\ positions' = EmptyDict
    /\ last_emitted' = EmptyDict
    /\ UNCHANGED <<engineVars, now, market, last_call, pipeVars, FILE_LOCK>>

\* save_positions: a part of the document is on disk
SavePart(c) ==
    /\ call[c].pc = "write"
    /\ torn = "empty"
    /\ torn' = "partial"
    /\ UNCHANGED <<engineVars, now, market, positions, last_emitted, last_call, pipeVars, FILE_LOCK, call>>

\* save_positions: the whole document is on disk; the with block ends.  After
\* update_on_price the sheet update follows, after the others the call returns
SaveDone(c) ==
    /\ call[c].pc = "write"
    /\ torn' = "whole"
    /\ positions' = Effect(call[c], call[c].base).positions
    /\ last_emitted' = Effect(call[c], call[c].base).last_emitted
    /\ FILE_LOCK' = LockAfterSave(FILE_LOCK, c)
    /\ call' = [call EXCEPT ![c] =
                    IF call[c].op = "update_on_price"
                    THEN [IdleCall EXCEPT !.pc = "sheet"]
                    ELSE IdleCall]
    /\ UNCHANGED <<engineVars, now, market, last_call, pipeVars>>

\* update_on_price: update_hit_status after the with block, ended or failed
SheetCall(c) ==
    /\ call[c].pc = "sheet"
    /\ call' = [call EXCEPT ![c] = IdleCall]
    /\ UNCHANGED <<engineVars, now, market, positions, last_emitted, last_call, pipeVars, FILE_LOCK, torn>>

\* run_once between its store calls: fetch_ohlcv, fetch_last_price or dispatch begins
OutboundCall(c) ==
    /\ call[c].pc = "idle"
    /\ call' = [call EXCEPT ![c].pc = "outbound"]
    /\ UNCHANGED <<engineVars, now, market, positions, last_emitted, last_call, pipeVars, FILE_LOCK, torn>>

\* the outbound call of run_once returns or raises
OutboundReturn(c) ==
    /\ call[c].pc = "outbound"
    /\ call' = [call EXCEPT ![c] = IdleCall]
    /\ UNCHANGED <<engineVars, now, market, positions, last_emitted, last_call, pipeVars, FILE_LOCK, torn>>

LockNext ==
    \E c \in Triggers :
        \/ Enter(c)
        \/ Load(c)
        \/ Mutate(c)
        \/ SaveOpen(c)
        \/ SavePart(c)
        \/ SaveDone(c)
        \/ SheetCall(c)
        \/ OutboundCall(c)
        \/ OutboundReturn(c)

\* concurrent callers of the store in a process that keeps running
LockSpec == StoreInit /\ [][LockNext]_vars

\* the process dies and is started again: threads, locks and local variables are
\* gone, the file is what it was
Crash ==
    /\ call' = [c \in Triggers |-> IdleCall]
    /\ FILE_LOCK' = {}
    /\ UNCHANGED <<engineVars, now, market, positions, last_emitted, last_call, pipeVars, torn>>

\* concurrent callers of the store in a process that may die at any point
CrashSpec == StoreInit /\ [][LockNext \/ Crash]_vars

\* ------------------------------------------------------ the indicator engine
\* The functions of indicator_engine.py are pure: each is applied to arguments drawn
\* from a bounded set, and `engine` holds the call and what it gave.

\* the ATR values the risk calculator is called with (whole multiples of SlAtrMultDen
\* ticks, so that atr * 1.5 is a whole number of ticks)
RiskAtrs == {-2, 0, 2, 4}
RiskEntries == 0..MaxEntry

\* mutation of default_risk_levels: the test of atr is missing
default_risk_levels_NoCheck(direction, entry, atr) ==
    [raised |-> "", levels |-> DefaultRiskLevels(direction, entry, atr)]

\* _default_risk_levels: ValueError for atr <= 0, else the four levels
default_risk_levels(direction, entry, atr) ==
    IF atr <= 0 THEN [raised |-> "ValueError"]
    ELSE [raised |-> "", levels |-> DefaultRiskLevels(direction, entry, atr)]

\* a call of _default_risk_levels(direction, entry, atr) is about to be made
RiskInit ==
    /\ ProgramInit
    /\ market = [s \in ScanSymbols |-> "NONE"]
    /\ candles = <<>>
    /\ engine \in [fn : {"_default_risk_levels"}, direction : Directions,
                   entry : RiskEntries, atr : RiskAtrs, done : {FALSE}, out : {<<>>}]

\* the call returns or raises
RiskCall ==
    /\ engine.fn = "_default_risk_levels"
    /\ ~engine.done
    /\ engine' = [engine EXCEPT
                    !.done = TRUE,
                    !.out = default_risk_levels(engine.direction, engine.entry, engine.atr)]
    /\ UNCHANGED <<candles, lockVars, now, market, positions, last_emitted, last_call, pipeVars>>

RiskSpec == RiskInit /\ [][RiskCall]_vars

\* ---- _ema, _barssince, _cdc_action_zone_direction
\* EMA values are fractions [num, den] with den > 0; closes are whole ticks.
RECURSIVE GCD(_, _)
GCD(a, b) == IF b = 0 THEN a ELSE GCD(b, a % b)

Max(a, b) == IF a >= b THEN a ELSE b

\* a < b on fractions
Less(a, b) ==
    LET g == GCD(a.den, b.den) IN a.num * (b.den \div g) < b.num * (a.den \div g)

\* k = 2 / (length + 1), in lowest terms
SmoothNum(length) == 2 \div GCD(2, length + 1)
SmoothDen(length) == (length + 1) \div GCD(2, length + 1)

\* _ema for length > 0: ema[0] = values[0], ema[i] = values[i] * k + ema[i-1] * (1 - k);
\* element i (from 1) is a fraction over SmoothDen ^ (i - 1)
RECURSIVE Ema(_, _)
Ema(values, length) ==
    LET n == Len(values)
        kn == SmoothNum(length)
        kd == SmoothDen(length)
    IN  IF n = 0 THEN <<>>
        ELSE IF n = 1 THEN <<[num |-> values[1], den |-> 1]>>
        ELSE LET prev == Ema(SubSeq(values, 1, n - 1), length)
             IN  Append(prev, [num |-> kn * values[n] * prev[n - 1].den
                                        + (kd - kn) * prev[n - 1].num,
                               den |-> kd * prev[n - 1].den])

\* _barssince: 0 where cond is true, the distance to the last true before, or Never
RECURSIVE Barssince(_)
Barssince(cond) ==
    LET n == Len(cond) IN
    IF n = 0 THEN <<>>
    ELSE LET prev == Barssince(SubSeq(cond, 1, n - 1))
         IN  Append(prev, IF cond[n] THEN 0
                          ELSE IF n = 1 \/ prev[n - 1] = Never THEN Never
                          ELSE prev[n - 1] + 1)

\* xPrice with xsmooth = 1: the closes themselves
XPrice(closes) == [i \in 1..Len(closes) |-> [num |-> closes[i], den |-> 1]]

\* green[i] = bull[i] and xprice[i] > fast[i], bull[i] = fast[i] > slow[i]
Green(closes, fast_len, slow_len) ==
    LET fast == Ema(closes, fast_len)
        slow == Ema(closes, slow_len)
        xprice == XPrice(closes)
    IN  [i \in 1..Len(closes) |-> Less(slow[i], fast[i]) /\ Less(fast[i], xprice[i])]

\* red[i] = bear[i] and xprice[i] < fast[i], bear[i] = fast[i] < slow[i]
Red(closes, fast_len, slow_len) ==
    LET fast == Ema(closes, fast_len)
        slow == Ema(closes, slow_len)
        xprice == XPrice(closes)
    IN  [i \in 1..Len(closes) |-> Less(fast[i], slow[i]) /\ Less(xprice[i], fast[i])]

\* buycond / sellcond: the first bar of a run of the colour; never the first bar
Edge(colour) == [i \in 1..Len(colour) |-> i > 1 /\ colour[i] /\ ~colour[i - 1]]

\* mutation of CdcActionZoneDirection: the colour of the last bar is the signal
CdcActionZoneDirection_Colour(closes, fast_len, slow_len) ==
    LET n == Len(closes) IN
    IF n < Max(fast_len, slow_len) + 5 THEN "NONE"
    ELSE IF Green(closes, fast_len, slow_len)[n] THEN "LONG"
    ELSE IF Red(closes, fast_len, slow_len)[n] THEN "SHORT"
    ELSE "NONE"

\* mutation of CdcActionZoneDirection: an edge signals whatever the regime before it
CdcActionZoneDirection_EdgeOnly(closes, fast_len, slow_len) ==
    LET n == Len(closes) IN
    IF n < Max(fast_len, slow_len) + 5 THEN "NONE"
    ELSE IF Edge(Green(closes, fast_len, slow_len))[n] THEN "LONG"
    ELSE IF Edge(Red(closes, fast_len, slow_len))[n] THEN "SHORT"
    ELSE "NONE"

\* mutation of CdcActionZoneDirection: equal distances count as a regime
CdcActionZoneDirection_TiesCount(closes, fast_len, slow_len) ==
    LET n == Len(closes) IN
    IF n < Max(fast_len, slow_len) + 5 THEN "NONE"
    ELSE LET buycond == Edge(Green(closes, fast_len, slow_len))
             sellcond == Edge(Red(closes, fast_len, slow_len))
             bs_buy == Barssince(buycond)
             bs_sell == Barssince(sellcond)
             bullish == [i \in 1..n |-> bs_buy[i] <= bs_sell[i]]
             bearish == [i \in 1..n |-> bs_sell[i] <= bs_buy[i]]
             buy == (IF n - 1 >= 1 THEN bearish[n - 1] ELSE FALSE) /\ buycond[n]
             sell == (IF n - 1 >= 1 THEN bullish[n - 1] ELSE FALSE) /\ sellcond[n]
         IN  IF buy THEN "LONG" ELSE IF sell THEN "SHORT" ELSE "NONE"

\* _cdc_action_zone_direction(closes, ema_fast_len, ema_slow_len, xsmooth = 1);
\* "NONE" is None
CdcActionZoneDirection(closes, fast_len, slow_len) ==
    LET n == Len(closes) IN
    IF n < Max(fast_len, slow_len) + 5 THEN "NONE"
    ELSE LET buycond == Edge(Green(closes, fast_len, slow_len))
             sellcond == Edge(Red(closes, fast_len, slow_len))
             bs_buy == Barssince(buycond)
             bs_sell == Barssince(sellcond)
             bullish == [i \in 1..n |-> bs_buy[i] < bs_sell[i]]
             bearish == [i \in 1..n |-> bs_sell[i] < bs_buy[i]]
             buy == (IF n - 1 >= 1 THEN bearish[n - 1] ELSE FALSE) /\ buycond[n]
             sell == (IF n - 1 >= 1 THEN bullish[n - 1] ELSE FALSE) /\ sellcond[n]
         IN  IF buy THEN "LONG" ELSE IF sell THEN "SHORT" ELSE "NONE"

\* the closes of a list of candles
Closes(cs) == [i \in 1..Len(cs) |-> cs[i].close]

\* the closes the detector is tried on, and the EMA lengths it is called with (their
\* smoothing factors 1/2 and 1/4 keep the fractions small)
DetectorCloses == {1, 2}
DetectorLengths == {[fast |-> 3, slow |-> 7]}

\* a candle that has only a close
Flat(c) == [high |-> c, low |-> c, close |-> c]

\* the detector is about to be called with growing prefixes of a close series
DetectorInit ==
    /\ ProgramInit
    /\ market = [s \in ScanSymbols |-> "NONE"]
    /\ candles = <<>>
    /\ \E l \in DetectorLengths :
        engine = [fn |-> "_cdc_action_zone_direction", fast |-> l.fast, slow |-> l.slow,
                  out |-> CdcActionZoneDirection(<<>>, l.fast, l.slow)]

\* one more bar closes, and the detector is called on the series up to it
DetectorCall ==
    /\ engine.fn = "_cdc_action_zone_direction"
    /\ Len(candles) < MaxBars
    /\ \E c \in DetectorCloses :
        /\ candles' = Append(candles, Flat(c))
        /\ engine' = [engine EXCEPT
                        !.out = CdcActionZoneDirection(Closes(candles'), engine.fast, engine.slow)]
    /\ UNCHANGED <<lockVars, now, market, positions, last_emitted, last_call, pipeVars>>

DetectorSpec == DetectorInit /\ [][DetectorCall]_vars

\* ---- _pullback_confirm
Highs(cs) == [i \in 1..Len(cs) |-> cs[i].high]
Lows(cs) == [i \in 1..Len(cs) |-> cs[i].low]

\* mutation of PullbackConfirm: a retracement anywhere in the list counts
PullbackConfirm_AnyBar(direction, highs, lows, closes, lookback) ==
    LET n == Len(closes) IN
    IF n < lookback + 2 THEN FALSE
    ELSE IF direction = "LONG"
    THEN (\E i \in 2..n : lows[i] < lows[i - 1]) /\ closes[n] > closes[n - 1]
    ELSE (\E i \in 2..n : highs[i] > highs[i - 1]) /\ closes[n] < closes[n - 1]

\* _pullback_confirm; range(n - lookback, n) is (n - lookback + 1)..n counting from 1,
\* and any direction but LONG is handled as SHORT
PullbackConfirm(direction, highs, lows, closes, lookback) ==
    LET n == Len(closes) IN
    IF n < lookback + 2 THEN FALSE
    ELSE LET c1 == closes[n - 1]
             c2 == closes[n]
         IN  IF direction = "LONG"
             THEN LET has_pullback == \E i \in (n - lookback + 1)..n : lows[i] < lows[i - 1]
                  IN  has_pullback /\ c2 > c1
             ELSE LET has_pullback == \E i \in (n - lookback + 1)..n : highs[i] > highs[i - 1]
                  IN  has_pullback /\ c2 < c1

\* the candles the filter is tried on, and the lookbacks it is called with
PullbackCandles == [high : {3, 4}, low : {1, 2}, close : {2, 3}]
Lookbacks == {1, 2}

\* what the filter gives for either direction on a candle list
PullbackOut(cs, lookback) ==
    [d \in Directions |-> PullbackConfirm(d, Highs(cs), Lows(cs), Closes(cs), lookback)]

\* the filter is about to be called with growing candle lists
PullbackInit ==
    /\ ProgramInit
    /\ market = [s \in ScanSymbols |-> "NONE"]
    /\ candles = <<>>
    /\ \E lb \in Lookbacks :
        engine = [fn |-> "_pullback_confirm", lookback |-> lb, out |-> PullbackOut(<<>>, lb)]

\* one more candle, and the filter is called on the list for either direction
PullbackCall ==
    /\ engine.fn = "_pullback_confirm"
    /\ Len(candles) < MaxCandles
    /\ \E c \in PullbackCandles :
        /\ candles' = Append(candles, c)
        /\ engine' = [engine EXCEPT !.out = PullbackOut(candles', engine.lookback)]
    /\ UNCHANGED <<lockVars, now, market, positions, last_emitted, last_call, pipeVars>>

PullbackSpec == PullbackInit /\ [][PullbackCall]_vars

\* ---- analyze_candles_for_signal
\* What the function computes from its candles before it decides: their number, what
\* the detector gives on the closes, what the filter gives for either direction, the
\* latest ATR14 value and the last close.
Windows ==
    [n : {MinBars - 1, MinBars, Limit - 1},
     cdc : {"NONE"} \cup Directions,
     pullback : [Directions -> BOOLEAN],
     atr : RiskAtrs,
     close : {EntryOf(d) : d \in Directions}]

\* the function returns None
NoSignal == [raised |-> "", signal |-> <<>>]

\* the function returns the payload built from the risk levels, or their error leaves it
Assemble(symbol, timeframe, direction, entry, risk) ==
    IF risk.raised # "" THEN [raised |-> risk.raised, signal |-> <<>>]
    ELSE [raised |-> "",
          signal |-> <<[symbol |-> symbol, timeframe |-> timeframe, direction |-> direction,
                        entry_price |-> entry, stop_loss |-> risk.levels.sl,
                        tp1 |-> risk.levels.tp1, tp2 |-> risk.levels.tp2,
                        tp3 |-> risk.levels.tp3]>>]

\* mutation of AnalyzeCandles: the test of the latest ATR value is missing
AnalyzeCandles_NoAtrTest(symbol, timeframe, w) ==
    IF w.n < MinBars THEN NoSignal
    ELSE IF w.cdc = "NONE" THEN NoSignal
    ELSE IF ~w.pullback[w.cdc] THEN NoSignal
    ELSE Assemble(symbol, timeframe, w.cdc, w.close,
                  default_risk_levels(w.cdc, w.close, w.atr))

\* analyze_candles_for_signal
AnalyzeCandles(symbol, timeframe, w) ==
    IF w.n < MinBars THEN NoSignal
    ELSE IF w.cdc = "NONE" THEN NoSignal
    ELSE IF ~w.pullback[w.cdc] THEN NoSignal
    ELSE IF w.atr <= 0 THEN NoSignal
    ELSE Assemble(symbol, timeframe, w.cdc, w.close,
                  default_risk_levels(w.cdc, w.close, w.atr))

\* a call of analyze_candles_for_signal is about to be made
AnalyzeInit ==
    /\ ProgramInit
    /\ market = [s \in ScanSymbols |-> "NONE"]
    /\ candles = <<>>
    /\ \E w \in Windows :
        engine = [fn |-> "analyze_candles_for_signal", symbol |-> "BTCUSDT",
                  timeframe |-> "1d", window |-> w, done |-> FALSE, out |-> NoSignal]

\* the call returns or raises
AnalyzeCall ==
    /\ engine.fn = "analyze_candles_for_signal"
    /\ ~engine.done
    /\ engine' = [engine EXCEPT
                    !.done = TRUE,
                    !.out = AnalyzeCandles(engine.symbol, engine.timeframe, engine.window)]
    /\ UNCHANGED <<candles, lockVars, now, market, positions, last_emitted, last_call, pipeVars>>

AnalyzeSpec == AnalyzeInit /\ [][AnalyzeCall]_vars

\* ==================================================================== properties
\* the step is a call update_on_price on key k (every direct call records itself in
\* last_call, which the passing of time clears)
IsUpdateCall(k) ==
    /\ last_call'.op = "update_on_price"
    /\ last_call'.key = k
    /\ now' = now

\* C1: a record goes from ACTIVE to CLOSED in a call only if the price of that call
\* crossed its stop-loss or reached its tp3; an update_on_price call whose price does
\* neither leaves the record ACTIVE and sets tp1_hit / tp2_hit when it reaches them.
C1_ClosesOnlyOnStopOrTp3 ==
    [][\A k \in DOMAIN positions :
        LET pos == positions[k]
            p   == positions'[k].last_price
        IN  /\ (pos.status = "ACTIVE" /\ positions'[k].status = "CLOSED")
                => /\ IsUpdateCall(k)
                   /\ CrossedStop(pos, p) \/ Reached(pos, pos.tp3, p)
            /\ ( /\ IsUpdateCall(k)
                 /\ pos.status = "ACTIVE"
                 /\ ~CrossedStop(pos, p)
                 /\ ~Reached(pos, pos.tp3, p) )
                => /\ positions'[k].status = "ACTIVE"
                   /\ last_call'.ret = "ACTIVE"
                   /\ Reached(pos, pos.tp1, p) => positions'[k].tp1_hit
                   /\ Reached(pos, pos.tp2, p) => positions'[k].tp2_hit
      ]_vars

\* C1 witness: one record is still ACTIVE after a price that reached tp1 and tp2, and
\* another one was closed by a price that reached tp3.
C1_Witness ==
    \E k1, k2 \in DOMAIN positions :
        /\ positions[k1].status = "ACTIVE"
        /\ positions[k1].tp1_hit /\ positions[k1].tp2_hit
        /\ Reached(positions[k1], positions[k1].tp2, positions[k1].last_price)
        /\ positions[k2].status = "CLOSED"
        /\ positions[k2].tp3_hit

\* C2: a record whose status is CLOSED has sl_hit or tp3_hit.
C2_ClosedHasTerminalFlag ==
    \A k \in DOMAIN positions :
        positions[k].status = "CLOSED" => (positions[k].sl_hit \/ positions[k].tp3_hit)

\* C2 witness: a record closed by its stop-loss after tp1 had been hit.
C2_Witness ==
    \E k \in DOMAIN positions :
        /\ positions[k].status = "CLOSED"
        /\ positions[k].sl_hit /\ positions[k].tp1_hit /\ ~positions[k].tp3_hit

\* C4: update_on_price on a key whose record is CLOSED returns CLOSED and changes
\* neither a record nor a marker.
C4_UpdateOnClosedIsNoOp ==
    [][\A k \in DOMAIN positions :
        (IsUpdateCall(k) /\ positions[k].status = "CLOSED")
        => /\ last_call'.ret = "CLOSED"
           /\ positions' = positions
           /\ last_emitted' = last_emitted
      ]_vars

\* C4 witness: an update_on_price call at the current time returned CLOSED for a
\* record that was closed at an earlier time; a marker is set and another record exists.
C4_Witness ==
    /\ last_call.op = "update_on_price"
    /\ last_call.ret = "CLOSED"
    /\ last_call.key \in DOMAIN positions
    /\ positions[last_call.key].status = "CLOSED"
    /\ positions[last_call.key].last_update < now
    /\ DOMAIN positions # {last_call.key}
    /\ DOMAIN last_emitted # {}

\* ---------------------------------------------------------------- pipeline
\* the key a trigger's current evaluation is about
KeyOf(t) == Key(loc[t].sym, loc[t].tf)

\* the steps of run_once that come after the position update
AfterUpdate == {"analyze", "telegram", "stats", "ledger", "create", "mark"}

\* the record of key k is there and ACTIVE
Active(ps, k) == k \in DOMAIN ps /\ ps[k].status = "ACTIVE"

\* C3 as stated: once the record of a key is CLOSED, no later operation of the
\* pipeline changes any of its fields.
C3_ClosedNeverChanges ==
    [][\A k \in DOMAIN positions :
        positions[k].status = "CLOSED" => positions'[k] = positions[k]
      ]_vars

\* C3, amended: once the record of a key is CLOSED, update_on_price never changes it;
\* it changes only when create_position, called by a run_once evaluation that accepted
\* a new signal for the key, replaces it by a new ACTIVE record with no flag set, and
\* no step takes a record from CLOSED back to ACTIVE in any other way.
C3_ClosedChangesOnlyByNewPosition ==
    [][\A k \in DOMAIN positions :
        (positions[k].status = "CLOSED" /\ positions'[k] # positions[k])
        => \E t \in Triggers :
            /\ pc[t] = "create" /\ pc'[t] = "mark"
            /\ KeyOf(t) = k
            /\ positions'[k].status = "ACTIVE"
            /\ positions'[k].direction = loc[t].sig
            /\ ~positions'[k].tp1_hit /\ ~positions'[k].tp2_hit
            /\ ~positions'[k].tp3_hit /\ ~positions'[k].sl_hit
            /\ positions'[k].events = EmptyDict
            /\ positions'[k].last_update = 0
      ]_vars

\* C3 witness: an evaluation found the record ACTIVE, its update closed it, and it has
\* just stored the position of a new signal over the closed record.
C3_Witness ==
    \E t \in Triggers :
        /\ pc[t] = "mark"
        /\ loc[t].locked /\ loc[t].st = "CLOSED"
        /\ Active(positions, KeyOf(t))
        /\ positions[KeyOf(t)].last_update = 0

\* C5: while a record stays ACTIVE, no step of the pipeline sets one of its hit flags
\* back to false.
C5_HitFlagsMonotone ==
    [][\A k \in DOMAIN positions :
        (positions[k].status = "ACTIVE" /\ positions'[k].status = "ACTIVE")
        => /\ positions[k].tp1_hit => positions'[k].tp1_hit
           /\ positions[k].tp2_hit => positions'[k].tp2_hit
           /\ positions[k].tp3_hit => positions'[k].tp3_hit
           /\ positions[k].sl_hit  => positions'[k].sl_hit
      ]_vars

\* C5 witness: an ACTIVE record keeps tp1_hit and tp2_hit after an update whose price
\* is back under tp1.
C5_Witness ==
    \E k \in DOMAIN positions :
        /\ positions[k].status = "ACTIVE"
        /\ positions[k].tp1_hit /\ positions[k].tp2_hit
        /\ positions[k].last_price # 0
        /\ ~Reached(positions[k], positions[k].tp1, positions[k].last_price)

\* the outcomes of run_once that are a decision about the closed bar
Decisions == {"DISPATCHED", "NO_SIGNAL"}

C7_SentAtMostOncePerBar ==
    \A e \in DOMAIN telegram : telegram[e] = "once"

\* C8: an evaluation that found the record ACTIVE calls update_on_price before the
\* analysis; if the update does not return CLOSED the evaluation ends with LOCKED_SKIP
\* and records, markers and sent signals are as the update left them; it analyses for
\* a new signal only after an update that returned CLOSED.
C8_UpdateBeforeAnalysis ==
    /\ [](\A t \in Triggers :
            (pc[t] \in AfterUpdate /\ loc[t].locked) => loc[t].st = "CLOSED")
    /\ [][\A t \in Triggers :
            /\ ( /\ pc[t] = "locked" /\ pc'[t] # "locked"
                 /\ Active(positions, KeyOf(t)) )
                => pc'[t] = "update" /\ loc'[t].locked
            /\ (pc[t] \in {"sheet", "unlock"} /\ pc'[t] # pc[t])
                => UNCHANGED <<positions, last_emitted, telegram>>
            /\ ( /\ pc[t] = "unlock" /\ pc'[t] # "unlock"
                 /\ loc[t].st # "CLOSED" )
                => /\ pc'[t] = "loop"
                   /\ loc'[t].out = "LOCKED_SKIP"
       ]_vars

\* C8 witness: an evaluation ended with LOCKED_SKIP after it had updated the record
\* at this time, and the record is ACTIVE with tp1 hit.
C8_Witness ==
    \E t \in Triggers :
        /\ loc[t].out = "LOCKED_SKIP"
        /\ Active(positions, KeyOf(t))
        /\ positions[KeyOf(t)].last_update = now
        /\ positions[KeyOf(t)].tp1_hit
        /\ GetLastEmitted(last_emitted, KeyOf(t)) # loc[t].T

\* C9: whatever the interleaving of the triggers, no evaluation is at create_position
\* while the record of its key is ACTIVE, and no step replaces an ACTIVE record by a
\* new one.
C9_NoCreateOverActive ==
    /\ [](\A t \in Triggers : pc[t] = "create" => ~Active(positions, KeyOf(t)))
    /\ [][\A t \in Triggers :
            (pc[t] = "create" /\ pc'[t] = "mark") => ~Active(positions, KeyOf(t))
       ]_vars

\* C9 witness: an evaluation is at create_position over a CLOSED record while another
\* trigger has been turned away.
C9_Witness ==
    \E t, u \in Triggers :
        /\ t # u
        /\ pc[t] = "create"
        /\ KeyOf(t) \in DOMAIN positions
        /\ positions[KeyOf(t)].status = "CLOSED"
        /\ rejected = (IF u = Scheduler THEN "SKIPPED" ELSE "ALREADY_RUNNING")

\* the triggers that are past the check-and-set of _RUNNING and before its reset
Inside == {t \in Triggers : pc[t] # "idle"}

\* C10: at most one trigger is inside its scan at any time, and it holds _RUNNING; a
\* trigger that arrives while _RUNNING is true stays out: it is answered
\* ALREADY_RUNNING (the scheduler's job returns, SKIPPED) in the same step, and that
\* step changes nothing else.
C10_GuardMutualExclusion ==
    /\ [](Cardinality(Inside) <= 1 /\ (Inside # {} => RUNNING))
    /\ [][\A t \in Triggers :
            (pc[t] = "idle" /\ RUNNING)
            => /\ pc'[t] = "idle"
               /\ rejected' # rejected
                    => /\ rejected' \in {"SKIPPED", "ALREADY_RUNNING", "INVALID_KEY"}
                       /\ UNCHANGED <<RUNNING, pc, loc, positions, last_emitted, telegram>>
       ]_vars

\* C10 witness: one trigger is in the middle of an evaluation and the other one has
\* just been turned away.
C10_Witness ==
    \E t, u \in Triggers :
        /\ t # u
        /\ pc[t] = "telegram"
        /\ pc[u] = "idle"
        /\ rejected = (IF u = Scheduler THEN "SKIPPED" ELSE "ALREADY_RUNNING")
        /\ RUNNING

\* ---------------------------------------------------------------- release of the guard
\* what a trigger that was let in does by itself, from its parameters to its finally
Step(t) ==
    \/ HttpParams(t)
    \/ Loop(t)
    \/ Fetch(t)
    \/ Dedup(t)
    \/ Locked(t)
    \/ Update(t)
    \/ Sheet(t)
    \/ Unlock(t)
    \/ AnalyzeStep(t)
    \/ Telegram(t)
    \/ Stats(t)
    \/ Ledger(t)
    \/ Create(t)
    \/ MarkEmitted(t)
    \/ Finally(t)

\* the pipeline with threads that keep running: a trigger that was let in takes its
\* next step sooner or later (every outbound call has a timeout)
FairSpec == Spec /\ \A t \in Triggers : WF_vars(Step(t))

\* C11: a trigger that set _RUNNING ends only through its finally, which sets the flag
\* back to false, after a normal scan and after an exception alike; with threads that
\* keep running the guard is free again after any accepted trigger, and a trigger that
\* arrives while the guard is free is not turned away as busy.
C11_GuardReleased ==
    /\ [][\A t \in Triggers :
            (pc[t] # "idle" /\ pc'[t] = "idle")
            => /\ pc[t] = "finally"
               /\ loc[t].out \in {"SCANNED", "EXCEPTION"}
               /\ ~RUNNING'
       ]_vars
    /\ [][(~RUNNING /\ rejected' # rejected) => rejected' \in {"", "INVALID_KEY"}]_vars
    /\ (RUNNING ~> ~RUNNING)

\* C11 witness: a trigger has been let in and is fetching although an earlier run ended
\* by an exception (its signal was sent and no position was stored).
C11_Witness ==
    \E t \in Triggers :
        /\ pc[t] = "fetch"
        /\ RUNNING
        /\ DOMAIN telegram # {}
        /\ DOMAIN positions = {}

\* ------------------------------------------------------------ the file lock
InLock == {"load", "mutate", "open", "write"}
File == Doc(positions, last_emitted)

\* C12: load, mutation and save of a mutating store call are one critical section: at
\* most one thread is inside, nobody changes the file between a call's load and its
\* save, only the holder of the lock writes, and what a call saves is its own mutation
\* of the document that was on disk when it began to save - no update of another call,
\* on the same key or on another, is lost.
C12_NoLostUpdate ==
    /\ [](/\ Cardinality(FILE_LOCK) <= 1
          /\ \A c \in Triggers : call[c].pc \in InLock <=> c \in FILE_LOCK
          /\ \A c \in Triggers : call[c].pc \in {"mutate", "open"}
                                   => torn = "whole" /\ call[c].base = File)
    /\ [][\A c \in Triggers :
            /\ (call[c].pc = "open" /\ call'[c].pc = "write")
                   => /\ call[c].base = File
                      /\ call'[c].base = call[c].base
            /\ (call[c].pc = "write" /\ call'[c].pc # "write")
                   => File' = Effect(call[c], call[c].base)]_vars
    /\ [][File' # File => \E c \in FILE_LOCK : call[c].pc \in {"open", "write"}]_vars

\* C12 witness: a thread is about to save on a document that already holds what two
\* earlier calls of another thread wrote (a record that was updated and a marker),
\* while that other thread is still in its sheet update.
C12_Witness ==
    \E c, d \in Triggers :
        /\ c # d
        /\ call[c].pc = "sheet"
        /\ call[d].pc = "open"
        /\ call[d].base.last_emitted # EmptyDict
        /\ \E k \in DOMAIN call[d].base.positions : call[d].base.positions[k].last_price > 0

\* C13: _FILE_LOCK is not held during an outbound call: a thread in the sheet update
\* of update_on_price or in a feed fetch or dispatch is not a holder, and whenever the
\* lock is held its holder is inside load, mutation or save, so a caller of the store
\* waits for file work only.
C13_NoLockDuringOutbound ==
    /\ \A c \in Triggers : call[c].pc \in {"sheet", "outbound"} => c \notin FILE_LOCK
    /\ FILE_LOCK # {} => \E c \in FILE_LOCK : call[c].pc \in InLock

\* C13 witness: while one thread is in the sheet update another one holds the lock and
\* is writing the file.
C13_Witness ==
    \E c, d \in Triggers :
        /\ call[c].pc = "sheet"
        /\ call[d].pc = "write"
        /\ d \in FILE_LOCK

\* C14: save_positions is atomic with respect to a crash: whenever no save is under
\* way the file holds a complete document.  The code writes with write_text, so a
\* process that dies inside the write leaves the file empty or partial.
C14_SaveAtomic == (\A c \in Triggers : call[c].pc # "write") => torn = "whole"

\* ------------------------------------------------------------ failures
Store == <<positions, last_emitted>>

\* C15: a failure of the price feed leaves the store as it was when the evaluation
\* began and ends the scan: from the fetch of the candles up to the read of the last
\* price no step changes a record or a marker, and a fetch_ohlcv or fetch_last_price
\* that raises takes the trigger to its finally block with the store, and the
\* messages sent, unchanged.
C15_FeedFailureLeavesStore ==
    [][\A t \in Triggers :
        /\ pc[t] \in {"fetch", "dedup", "locked"} => Store' = Store
        /\ (pc[t] \in {"fetch", "update"} /\ loc'[t].out = "EXCEPTION")
              => /\ pc'[t] = "finally"
                 /\ Store' = Store
                 /\ telegram' = telegram]_vars

\* C15 witness: a request's scan has ended by an exception while every symbol has an
\* ACTIVE record that was never updated and a marker at the latest closed bar, which
\* leaves only fetch_ohlcv as the call that raised.
C15_Witness ==
    \E t \in HttpTriggers :
        /\ pc[t] = "finally"
        /\ loc[t].out = "EXCEPTION"
        /\ \A s \in ScanSymbols :
            /\ Active(positions, Key(s, "1d"))
            /\ positions[Key(s, "1d")].last_price = 0
            /\ GetLastEmitted(last_emitted, Key(s, "1d")) = now - 1

\* C16: when the notifier call fails after a signal was accepted, the evaluation goes
\* on: the step after a failed or successful send is the rest of dispatch, which leads
\* to the ACTIVE position and the marker.  In the code send_telegram raises and
\* nothing catches it before the trigger's finally block.
C16_NotifierFailureStillCreates ==
    [][\A t \in Triggers :
        (pc[t] = "telegram" /\ pc'[t] # "telegram") => pc'[t] = "stats"]_vars

\* C17: a failure of the ledger is swallowed: after append_signal_row, logged or
\* skipped, the evaluation creates the position next, and nothing but a failed write
\* of the store file keeps it from the ACTIVE record and the marker; after
\* update_hit_status, done or skipped, update_on_price returns the status it stored.
C17_LedgerFailureSwallowed ==
    [][\A t \in Triggers :
        /\ (pc[t] = "ledger" /\ pc'[t] # "ledger")
              => /\ pc'[t] = "create"
                 /\ loc'[t].ledger \in {"SHEET_LOGGED", "SHEET_SKIPPED"}
                 /\ loc'[t].sig = loc[t].sig /\ loc'[t].sym = loc[t].sym /\ loc'[t].T = loc[t].T
                 /\ Store' = Store
        /\ (pc[t] = "create" /\ pc'[t] = "mark")
              => Active(positions', KeyOf(t))
        /\ (pc[t] = "mark" /\ loc'[t].out = "DISPATCHED")
              => GetLastEmitted(last_emitted', KeyOf(t)) = loc[t].T
        /\ (pc[t] = "sheet" /\ pc'[t] # "sheet")
              => /\ pc'[t] = "unlock"
                 /\ loc'[t].ledger \in {"ok", "SHEET_UPDATE_SKIPPED"}
                 /\ loc'[t].st = loc[t].st
                 /\ loc'[t].st = positions[KeyOf(t)].status
                 /\ Store' = Store]_vars

\* C17 witness: the ledger call of a dispatch failed and the evaluation is at
\* create_position all the same.
C17_Witness ==
    \E t \in Triggers :
        /\ pc[t] = "create"
        /\ loc[t].ledger = "SHEET_SKIPPED"
        /\ loc[t].sig \in Directions

\* C18: whenever a ledger call is about to be made, the store write it belongs to is
\* already on disk: the ACTIVE record of the signal before append_signal_row, the
\* updated record before update_hit_status.  In the code dispatch, with its
\* append_signal_row, runs before create_position.
C18_StoreWriteBeforeLedger ==
    \A t \in Triggers :
        /\ pc[t] = "ledger" => Active(positions, KeyOf(t))
        /\ pc[t] = "sheet" => /\ KeyOf(t) \in DOMAIN positions
                              /\ positions[KeyOf(t)].status = loc[t].st
                              /\ positions[KeyOf(t)].last_price > 0

\* ------------------------------------------------- update_on_price, again
\* C19: an update_on_price call whose price crosses the stop-loss of an ACTIVE record
\* sets sl_hit, closes the record and returns CLOSED; it tests no target: tp1_hit,
\* tp2_hit and tp3_hit keep the values they had and SL is the only event it marks.
C19_StopClosesAndKeepsTargets ==
    [][\A k \in DOMAIN positions :
        LET pos == positions[k]
            p   == positions'[k].last_price
        IN  (IsUpdateCall(k) /\ pos.status = "ACTIVE" /\ CrossedStop(pos, p))
            => /\ positions'[k].sl_hit
               /\ positions'[k].status = "CLOSED"
               /\ last_call'.ret = "CLOSED"
               /\ positions'[k].tp1_hit = pos.tp1_hit
               /\ positions'[k].tp2_hit = pos.tp2_hit
               /\ positions'[k].tp3_hit = pos.tp3_hit
               /\ positions'[k].events = Mark(pos.events, {"SL"}, now)
      ]_vars

\* C19 witness: the call that just returned CLOSED crossed the stop of a record whose
\* first and second target had been hit before; the record closed with them still set.
C19_Witness ==
    /\ last_call.op = "update_on_price"
    /\ last_call.ret = "CLOSED"
    /\ last_call.key \in DOMAIN positions
    /\ LET pos == positions[last_call.key] IN
        /\ pos.status = "CLOSED"
        /\ pos.sl_hit /\ pos.tp1_hit /\ pos.tp2_hit /\ ~pos.tp3_hit
        /\ CrossedStop(pos, pos.last_price)
        /\ pos.last_update = now

\* the keys the store is called with
StoreKeys == {Key(s, "1d") : s \in StoreSymbols}

\* C20: an update_on_price call for a key that has no record returns NOT_FOUND,
\* creates no record and leaves every record and every marker as it was.
C20_UpdateOnMissingIsNoOp ==
    [][\A k \in StoreKeys :
        (IsUpdateCall(k) /\ k \notin DOMAIN positions)
        => /\ last_call'.ret = "NOT_FOUND"
           /\ positions' = positions
           /\ last_emitted' = last_emitted
      ]_vars

\* C20 witness: an update_on_price call returned NOT_FOUND for a key that has a marker
\* but no record, while the store holds the record of another key.
C20_Witness ==
    /\ last_call.op = "update_on_price"
    /\ last_call.ret = "NOT_FOUND"
    /\ last_call.key \notin DOMAIN positions
    /\ last_call.key \in DOMAIN last_emitted
    /\ DOMAIN positions # {}

\* ------------------------------------------------------ the indicator engine
\* C21: with the default multipliers _default_risk_levels gives for LONG
\* sl = entry - 1.5 * atr and tpN = entry + N * 1.5 * atr, so sl < entry < tp1 < tp2 < tp3,
\* for SHORT the mirrored values, so tp3 < tp2 < tp1 < entry < sl; for atr <= 0 it
\* raises and returns no levels.
C21_RiskLevels ==
    engine.fn = "_default_risk_levels" /\ engine.done =>
        LET e == engine.entry
            a == engine.atr
            o == engine.out
        IN  IF a <= 0
            THEN o.raised = "ValueError" /\ DOMAIN o = {"raised"}
            ELSE /\ o.raised = ""
                 /\ IF engine.direction = "LONG"
                    THEN /\ 2 * o.levels.sl = 2 * e - 3 * a
                         /\ 2 * o.levels.tp1 = 2 * e + 3 * a
                         /\ 2 * o.levels.tp2 = 2 * e + 6 * a
                         /\ 2 * o.levels.tp3 = 2 * e + 9 * a
                         /\ o.levels.sl < e /\ e < o.levels.tp1
                         /\ o.levels.tp1 < o.levels.tp2 /\ o.levels.tp2 < o.levels.tp3
                    ELSE /\ 2 * o.levels.sl = 2 * e + 3 * a
                         /\ 2 * o.levels.tp1 = 2 * e - 3 * a
                         /\ 2 * o.levels.tp2 = 2 * e - 6 * a
                         /\ 2 * o.levels.tp3 = 2 * e - 9 * a
                         /\ o.levels.tp3 < o.levels.tp2 /\ o.levels.tp2 < o.levels.tp1
                         /\ o.levels.tp1 < e /\ e < o.levels.sl

\* C21 witness: a SHORT call with a positive atr returned levels and its third target
\* is below zero.
C21_Witness ==
    /\ engine.fn = "_default_risk_levels" /\ engine.done
    /\ engine.direction = "SHORT" /\ engine.atr > 0
    /\ engine.out.raised = ""
    /\ engine.out.levels.tp3 < 0

\* the last bar of the series the detector was called on
Last == Len(candles)

\* the colours of the series the detector was called on
GreenBars == Green(Closes(candles), engine.fast, engine.slow)
RedBars == Red(Closes(candles), engine.fast, engine.slow)

\* bar i is the first of a run of the colour: rising edge for green, falling for red
EdgeAt(colour, i) == i > 1 /\ colour[i] /\ ~colour[i - 1]

\* at bar i the latest edge so far is one of `colour` and none of `other`
Regime(colour, other, i) ==
    \E j \in 1..i : EdgeAt(colour, j) /\ \A m \in j..i : ~EdgeAt(other, m)

LongEnough == Last >= Max(engine.fast, engine.slow) + 5

\* C22: on a series of at least max(fast, slow) + 5 bars the detector gives LONG
\* exactly when the last bar is a rising edge and the bar before it is in bearish
\* regime, SHORT exactly when the last bar is a falling edge and the bar before it is
\* in bullish regime, and none otherwise; on a shorter series it gives none.
C22_DetectorCases ==
    engine.fn = "_cdc_action_zone_direction" =>
        LET g == GreenBars
            r == RedBars
        IN  /\ engine.out = "LONG"
                  <=> (LongEnough /\ EdgeAt(g, Last) /\ Regime(r, g, Last - 1))
            /\ engine.out = "SHORT"
                  <=> (LongEnough /\ EdgeAt(r, Last) /\ Regime(g, r, Last - 1))
            /\ engine.out \in {"LONG", "SHORT", "NONE"}

\* C22 witness: the detector gave SHORT on a series whose last bar is a falling edge
\* and that has a rising edge before it.
C22_Witness ==
    /\ engine.fn = "_cdc_action_zone_direction"
    /\ engine.out = "SHORT"
    /\ EdgeAt(RedBars, Last)
    /\ \E j \in 1..(Last - 1) : EdgeAt(GreenBars, j)

\* C23: if the detector gives a direction on the series up to bar t, it does not
\* give that direction on the series up to bar t + 1.
C23_NoRepeatOnNextBar ==
    [][(engine.fn = "_cdc_action_zone_direction"
        /\ engine.out \in Directions
        /\ Len(candles') = Len(candles) + 1
        /\ SubSeq(candles', 1, Len(candles)) = candles)
       => engine'.out # engine.out]_vars

\* C23 witness: one bar after a LONG signal the series is still green and the
\* detector gives none.
C23_Witness ==
    /\ engine.fn = "_cdc_action_zone_direction"
    /\ Last >= 2
    /\ CdcActionZoneDirection(Closes(SubSeq(candles, 1, Last - 1)), engine.fast, engine.slow)
         = "LONG"
    /\ GreenBars[Last]
    /\ engine.out = "NONE"

\* the last `lookback` bars of the list the filter was called on
Recent == {i \in 1..Last : i > Last - engine.lookback}

\* C24: with fewer than lookback + 2 bars the filter gives false; otherwise it confirms
\* LONG exactly when one of the last `lookback` bars has a low strictly below the low
\* of the bar before it and the last close is strictly above the close before it, and
\* SHORT exactly when one of them has a high strictly above the high of the bar before
\* it and the last close is strictly below the close before it.
C24_PullbackCases ==
    engine.fn = "_pullback_confirm" =>
        IF Last < engine.lookback + 2
        THEN ~engine.out["LONG"] /\ ~engine.out["SHORT"]
        ELSE /\ engine.out["LONG"]
                  <=> /\ \E i \in Recent : candles[i].low < candles[i - 1].low
                      /\ candles[Last].close > candles[Last - 1].close
             /\ engine.out["SHORT"]
                  <=> /\ \E i \in Recent : candles[i].high > candles[i - 1].high
                      /\ candles[Last].close < candles[Last - 1].close

\* C24 witness: the filter refuses LONG on a list whose only lower low is older than
\* the last `lookback` bars although the last close is above the one before.
C24_Witness ==
    /\ engine.fn = "_pullback_confirm"
    /\ Last >= engine.lookback + 2
    /\ ~engine.out["LONG"]
    /\ candles[Last].close > candles[Last - 1].close
    /\ \E i \in 2..Last : candles[i].low < candles[i - 1].low

\* the levels of a payload are in the order of its direction
Ordered(p) ==
    IF p.direction = "LONG"
    THEN p.stop_loss < p.entry_price /\ p.entry_price < p.tp1 /\ p.tp1 < p.tp2 /\ p.tp2 < p.tp3
    ELSE p.tp3 < p.tp2 /\ p.tp2 < p.tp1 /\ p.tp1 < p.entry_price /\ p.entry_price < p.stop_loss

\* C25: analyze_candles_for_signal returns a signal exactly when the window has at
\* least 60 bars, the detector gives a direction, the filter confirms that direction
\* and the latest ATR value is above zero; otherwise it returns none; it never raises;
\* a signal has the detector's direction, the last close as entry price and levels in
\* the order of its direction.
C25_AnalyzeCases ==
    engine.fn = "analyze_candles_for_signal" /\ engine.done =>
        LET w == engine.window
            o == engine.out
        IN  /\ o.raised = ""
            /\ Len(o.signal) = 1
                  <=> /\ w.n >= 60
                      /\ w.cdc \in Directions
                      /\ w.pullback[w.cdc]
                      /\ w.atr > 0
            /\ Len(o.signal) \in {0, 1}
            /\ Len(o.signal) = 1
                  => /\ o.signal[1].direction = w.cdc
                     /\ o.signal[1].entry_price = w.close
                     /\ o.signal[1].symbol = engine.symbol
                     /\ o.signal[1].timeframe = engine.timeframe
                     /\ Ordered(o.signal[1])

\* C25 witness: a call on a window of exactly 60 bars returned a SHORT signal although
\* the filter refuses LONG.
C25_Witness ==
    /\ engine.fn = "analyze_candles_for_signal" /\ engine.done
    /\ engine.window.n = 60
    /\ ~engine.window.pullback["LONG"]
    /\ Len(engine.out.signal) = 1
    /\ engine.out.signal[1].direction = "SHORT"

\* ------------------------------------------------------------ closed bars
\* the steps of run_once after the forming candle was dropped
Evaluating ==
    {"dedup", "locked", "update", "sheet", "unlock", "analyze", "telegram", "stats",
     "ledger", "create", "mark"}

\* C26: run_once decides on closed bars only: the bar an evaluation compares with the
\* marker, analyses and writes to the marker has a close time strictly before the
\* current time, and so has every marker in the store; the marker an evaluation
\* writes is the close time of that bar.
C26_ClosedBarsOnly ==
    /\ [](\A t \in Triggers : pc[t] \in Evaluating => loc[t].T < now)
    /\ [](\A k \in DOMAIN last_emitted : last_emitted[k] < now)
    /\ [][\A t \in Triggers :
            (pc[t] = "mark" /\ last_emitted' # last_emitted)
               => last_emitted' = SetLastEmitted(last_emitted, KeyOf(t), loc[t].T)]_vars

\* C26 witness: an evaluation is at the once-per-candle check with the bar that closed
\* last while the marker of its key is the bar before that one.
C26_Witness ==
    \E t \in Triggers :
        /\ pc[t] = "dedup"
        /\ loc[t].T = now - 1
        /\ GetLastEmitted(last_emitted, KeyOf(t)) = now - 2
        /\ now - 2 > 0

\* ------------------------------------------------------------ rejected triggers
Busy == {"ALREADY_RUNNING", "SKIPPED"}

\* C27: a trigger that is turned away because a scan is in progress does not change
\* _RUNNING: the flag is true before and after the rejection, the scan that holds it
\* goes on where it was, and as long as the flag is true no other trigger is let in.
C27_RejectionKeepsGuard ==
    /\ [][(rejected' \in Busy /\ rejected' # rejected)
            => /\ RUNNING /\ RUNNING'
               /\ Inside' = Inside /\ Inside # {}
               /\ pc' = pc /\ loc' = loc]_vars
    /\ [][\A t \in Triggers : (RUNNING /\ pc[t] = "idle") => pc'[t] = "idle"]_vars
    /\ [](rejected \in Busy /\ Inside # {} => RUNNING)

\* C27 witness: the scan that was running when a request was answered ALREADY_RUNNING
\* has reached the marker write, and the guard is still held.
C27_Witness ==
    /\ rejected = "ALREADY_RUNNING"
    /\ RUNNING
    /\ pc[Scheduler] = "mark"
    /\ \A t \in HttpTriggers : pc[t] = "idle"

\* ------------------------------------------------------------ records of the store
\* C28: the target flags of a record are nested: tp3_hit implies tp2_hit and tp2_hit
\* implies tp1_hit, for LONG and for SHORT records, after any sequence of calls.
C28_TargetFlagsNested ==
    \A k \in DOMAIN positions :
        /\ positions[k].tp3_hit => positions[k].tp2_hit
        /\ positions[k].tp2_hit => positions[k].tp1_hit

\* C28 witness: a SHORT record went from no flag to all three target flags in one
\* call, whose price was at or beyond its third target.
C28_Witness ==
    \E k \in DOMAIN positions :
        /\ positions[k].direction = "SHORT"
        /\ positions[k].tp1_hit /\ positions[k].tp2_hit /\ positions[k].tp3_hit
        /\ positions[k].events["TP1"] = positions[k].events["TP3"]
        /\ Ordered(positions[k])

\* C29: no record has both sl_hit and tp3_hit.
C29_SingleTerminalCause ==
    \A k \in DOMAIN positions : ~(positions[k].sl_hit /\ positions[k].tp3_hit)

\* C29 witness: a record closed by its third target was called again later, with no
\* effect: it is CLOSED with tp3_hit and without sl_hit.
C29_Witness ==
    /\ last_call.op = "update_on_price"
    /\ last_call.ret = "CLOSED"
    /\ last_call.key \in DOMAIN positions
    /\ LET pos == positions[last_call.key] IN
        /\ pos.tp3_hit /\ ~pos.sl_hit
        /\ pos.status = "CLOSED"
        /\ pos.last_update < now

\* dicts d and e are the same but for key k
SameBut(d, e, k) ==
    \A j \in (DOMAIN d \cup DOMAIN e) \ {k} :
        j \in DOMAIN d /\ j \in DOMAIN e /\ d[j] = e[j]

\* C30: a store operation touches its own entry only: create_position and
\* update_on_price for a key leave the records of all other keys and every marker as
\* they were; set_last_emitted_close_time_ms for a key leaves every record and the
\* markers of all other keys as they were.
C30_OwnEntryOnly ==
    [][/\ last_call'.op = "create_position" /\ now' = now
          => /\ last_emitted' = last_emitted
             /\ \E k \in StoreKeys :
                 /\ SameBut(positions, positions', k)
                 /\ k \in DOMAIN positions'
                 /\ Key(positions'[k].symbol, positions'[k].timeframe) = k
       /\ \A k \in StoreKeys :
            IsUpdateCall(k) => last_emitted' = last_emitted /\ SameBut(positions, positions', k)
       /\ last_call'.op = "set_last_emitted_close_time_ms" /\ now' = now
          => /\ positions' = positions
             /\ \E k \in StoreKeys :
                 /\ SameBut(last_emitted, last_emitted', k)
                 /\ k \in DOMAIN last_emitted'
                 /\ last_emitted'[k] = now - 1
      ]_vars

\* C30 witness: the last call wrote the marker of one key while the other key has a
\* marker of an earlier bar, and the store holds an updated record of each key.
C30_Witness ==
    /\ last_call.op = "set_last_emitted_close_time_ms"
    /\ \E k, j \in StoreKeys :
        /\ k # j
        /\ GetLastEmitted(last_emitted, k) = now - 1
        /\ GetLastEmitted(last_emitted, j) = now - 2
        /\ now - 2 > 0
    /\ \A k \in StoreKeys : k \in DOMAIN positions /\ positions[k].last_price > 0

C32_FirstEdgeNeverSignals ==
    engine.fn = "_cdc_action_zone_direction" =>
        LET g == GreenBars
            r == RedBars
            bs_buy == Barssince(Edge(g))
            bs_sell == Barssince(Edge(r))
        IN  /\ engine.out = "LONG" => \E j \in 1..(Last - 1) : EdgeAt(r, j)
            /\ engine.out = "SHORT" => \E j \in 1..(Last - 1) : EdgeAt(g, j)
            /\ (Last >= 2 /\ \A j \in 1..(Last - 1) : ~EdgeAt(g, j) /\ ~EdgeAt(r, j))
               => /\ bs_buy[Last - 1] = Never /\ bs_sell[Last - 1] = Never
                  /\ ~(bs_buy[Last - 1] < bs_sell[Last - 1])
                  /\ ~(bs_sell[Last - 1] < bs_buy[Last - 1])
                  /\ engine.out = "NONE"

\* C32 witness: on a series long enough for the detector the last bar is a rising edge,
\* no bar before it is an edge of either kind, and the detector gave none.
C32_Witness ==
    /\ engine.fn = "_cdc_action_zone_direction"
    /\ LongEnough
    /\ EdgeAt(GreenBars, Last)
    /\ \A j \in 1..(Last - 1) : ~EdgeAt(GreenBars, j) /\ ~EdgeAt(RedBars, j)
    /\ engine.out = "NONE"

====
